---- MODULE Spec2Model ----
(***************************************************************************)
(* Leveraged DCA backtester (kong): the position simulator dcaWithLeverage *)
(* of src/src/index.ts with the price-level helpers of src/src/utils.ts,   *)
(* the baseline accumulator dca and the grid sweep simulateEveryLeverages. *)
(*                                                                         *)
(* Numbers of the program are IEEE doubles; the model computes with exact  *)
(* rationals [n, d] (d > 0, lowest terms), so a comparison or a sum is the *)
(* one the formulas of the source define on the reals.  Indices are the    *)
(* 0-based indices of the source; bar k of the series is data[k + 1].      *)
(***************************************************************************)
EXTENDS Integers, Sequences, FiniteSets, TLC

VARIABLES
    data,                  \* the candle series (PriceData[]), read-only
    cfg,                   \* the arguments of the run: freq, amount, duration, leverage, profit, long
    pc,                    \* position of the control flow
    i,                     \* dcaWithLeverage: index of the outer loop
    j,                     \* dcaWithLeverage: index of the scan loop
    liquidated,            \* dcaWithLeverage: local flag of the current trade
    profitTaken,           \* dcaWithLeverage: local flag of the current trade
    wallet,                \* dcaWithLeverage: local accumulator (units)
    liquidationsCount,
    takeProfitsCount,
    closedPositionsCount,
    trades,                \* history: one record per trade opened by the current run
    dcaI,                  \* dca: loop index
    dcaWallet,             \* dca: local accumulator (units)
    purchases,             \* history: number of purchases made by dca
    caller,                \* who called dcaWithLeverage: "none" or "grid"
    gridI,                 \* simulateEveryLeverages: leverage of the cell
    gridJ,                 \* simulateEveryLeverages: profit target of the cell
    leverageResults,       \* simulateEveryLeverages: the rows pushed so far / the sorted table
    variant,               \* results of the older variants of dcaWithLeverage on the same arguments
    runs                   \* history: arguments and result of the invocations completed before

vars == <<data, cfg, pc, i, j, liquidated, profitTaken, wallet,
          liquidationsCount, takeProfitsCount, closedPositionsCount, trades,
          dcaI, dcaWallet, purchases, caller, gridI, gridJ, leverageResults,
          variant, runs>>

simVars == <<i, j, liquidated, profitTaken, wallet,
             liquidationsCount, takeProfitsCount, closedPositionsCount, trades>>
dcaVars == <<dcaI, dcaWallet, purchases>>
gridVars == <<caller, gridI, gridJ, leverageResults>>
harnessVars == <<variant, runs>>

----------------------------------------------------------------------------
(* Bounds of the model *)

MaxLen == 4
MaxFreq == 2
MaxDuration == 2
MaxSpin == 2
MaxLeverage == 6      \* the sweep of the source goes up to 100
MaxProfit == 100      \* the sweep of the source goes up to 1000

----------------------------------------------------------------------------
(* Exact rational arithmetic standing for the program's numbers *)

Abs(x) == IF x < 0 THEN -x ELSE x

RECURSIVE GCD(_, _)
GCD(a, b) == IF b = 0 THEN a ELSE GCD(b, a % b)

Norm(n, d) ==
    LET s == IF d < 0 THEN -1 ELSE 1
        g == GCD(Abs(n), Abs(d))
    IN  [n |-> (s * n) \div g, d |-> (s * d) \div g]

R(x) == [n |-> x, d |-> 1]
Zero == R(0)

RAdd(a, b) ==
    LET g == GCD(a.d, b.d)
        l == (a.d \div g) * b.d
    IN  Norm(a.n * (l \div a.d) + b.n * (l \div b.d), l)

RNeg(a) == [n |-> -a.n, d |-> a.d]
RSub(a, b) == RAdd(a, RNeg(b))

RMul(a, b) ==
    LET g1 == GCD(Abs(a.n), b.d)
        g2 == GCD(Abs(b.n), a.d)
    IN  Norm((a.n \div g1) * (b.n \div g2), (a.d \div g2) * (b.d \div g1))

\* b is never zero within the bounds (prices, leverage are positive)
RDiv(a, b) == RMul(a, Norm(b.d, b.n))

RLe(a, b) == RSub(a, b).n <= 0
RGe(a, b) == RLe(b, a)
RLt(a, b) == ~RLe(b, a)

----------------------------------------------------------------------------
(* Inputs *)

Candle(o, h, l, c) == [open |-> o, high |-> h, low |-> l, close |-> c]

\* bars seen from an entry at 100 with leverage 10 and target 100 %:
\* quiet, up to the profit limit, down to the liquidation price, both.
Candles ==
    { Candle(100, 105, 95, 105),
      Candle(110, 110, 95, 100),
      Candle(90, 105, 90, 95),
      Candle(120, 130, 90, 130) }

RECURSIVE SeqsUpTo(_, _)
SeqsUpTo(S, n) ==
    IF n = 0 THEN { <<>> }
    ELSE LET shorter == SeqsUpTo(S, n - 1)
         IN  shorter \cup { Append(s, x) : s \in { t \in shorter : Len(t) = n - 1 }, x \in S }

Leverages == {5, 10}
ProfitTargets == {100}
BuyAmounts == {100}

Configs ==
    [ freq : 1..MaxFreq, amount : BuyAmounts, duration : 1..MaxDuration,
      leverage : Leverages, profit : ProfitTargets, long : BOOLEAN ]

At(k) == data[k + 1]
InSeries(k) == k >= 0 /\ k < Len(data)

----------------------------------------------------------------------------
(* src/src/utils.ts *)

calculateRemainingAmount(profitOrLoss, buyAmount) == RAdd(profitOrLoss, buyAmount)

\* mutant: the exit is valued at the exit bar's open (the legacy variant)
calculateExitSoldInUSD_exitOpen(btcBought, profitTaken_, profitLimitPrice_, exitCandle) ==
    RMul(btcBought, IF profitTaken_ THEN profitLimitPrice_ ELSE R(exitCandle.open))

calculateExitSoldInUSD(btcBought, profitTaken_, profitLimitPrice_, exitCandle) ==
    RMul(btcBought, IF profitTaken_ THEN profitLimitPrice_ ELSE R(exitCandle.close))

\* mutant: the direction is ignored, every trade is valued as a long
calculateProfitOrLoss_longOnly(exitSoldAmountInUSD, btcBought, entryPrice_, long) ==
    RSub(exitSoldAmountInUSD, RMul(btcBought, entryPrice_))

calculateProfitOrLoss(exitSoldAmountInUSD, btcBought, entryPrice_, long) ==
    IF long
    THEN RSub(exitSoldAmountInUSD, RMul(btcBought, entryPrice_))
    ELSE RSub(RMul(btcBought, entryPrice_), exitSoldAmountInUSD)

calculateLiquidationPrice(entryPrice_, leverage, long) ==
    LET distance == RDiv(R(100), leverage)
        distanceInDollars == RMul(RDiv(distance, R(100)), entryPrice_)
    IN  IF long THEN RSub(entryPrice_, distanceInDollars)
                ELSE RAdd(entryPrice_, distanceInDollars)

\* mutant: the target is not divided by the leverage
calculateProfitLimit_noLeverage(entryPrice_, profitInPercent, leverage, long) ==
    LET gain == RDiv(RMul(entryPrice_, profitInPercent), R(100))
    IN  IF long THEN RAdd(entryPrice_, gain) ELSE RSub(entryPrice_, gain)

calculateProfitLimit(entryPrice_, profitInPercent, leverage, long) ==
    LET gain == RDiv(RDiv(RMul(entryPrice_, profitInPercent), R(100)), leverage)
    IN  IF long THEN RAdd(entryPrice_, gain) ELSE RSub(entryPrice_, gain)

isLiquidated(candle, liquidationPrice_, long) ==
    IF long THEN RLe(R(candle.low), liquidationPrice_)
            ELSE RGe(R(candle.high), liquidationPrice_)

\* mutant: strict comparisons, as in the oldest variant
isProfitTaken_strict(candle, profitLimitPrice_, long) ==
    IF long THEN RLt(profitLimitPrice_, R(candle.high))
            ELSE RLt(R(candle.low), profitLimitPrice_)

isProfitTaken(candle, profitLimitPrice_, long) ==
    IF long THEN RGe(R(candle.high), profitLimitPrice_)
            ELSE RLe(R(candle.low), profitLimitPrice_)

----------------------------------------------------------------------------
(* src/src/index.ts, dcaWithLeverage (direction-aware): the constants of   *)
(* the iteration at index i                                                *)

entryPrice == R(At(i).open)
btcBought == RDiv(RMul(R(cfg.amount), R(cfg.leverage)), entryPrice)
liquidationPrice == calculateLiquidationPrice(entryPrice, R(cfg.leverage), cfg.long)
profitLimitPrice == calculateProfitLimit(entryPrice, R(cfg.profit), R(cfg.leverage), cfg.long)
exitIndex == i + cfg.duration

\* mutant: the bound is inclusive
EntryGuard_inclusive == i + cfg.freq <= Len(data)

\* mutant: the loop bound of dca, without the look-ahead of one period
EntryGuard_noLookahead == i < Len(data)

\* for (let i = 0; i + buyFrequencyInHours < data.length; i += buyFrequencyInHours)
EntryGuard == i + cfg.freq < Len(data)

\* mutant: the scan reads one bar past the exit index
ScanContinues_oneMore == j <= exitIndex + 1

\* for (let j = i + 1; j <= exitIndex; j++)
ScanContinues == j <= exitIndex

\* mutant: the two tests of the scan loop in the other order
ScanOutcome_profitFirst(candle) ==
    IF isProfitTaken(candle, profitLimitPrice, cfg.long) THEN "profit"
    ELSE IF isLiquidated(candle, liquidationPrice, cfg.long) THEN "liquidated"
    ELSE "none"

\* body of the scan loop: liquidation is tested first, then the profit limit
ScanOutcome(candle) ==
    IF isLiquidated(candle, liquidationPrice, cfg.long) THEN "liquidated"
    ELSE IF isProfitTaken(candle, profitLimitPrice, cfg.long) THEN "profit"
    ELSE "none"

\* mutant: the settlement is not guarded by the liquidation flag
SettlesCapital_always == TRUE

\* if (!liquidated) { ... wallet += ... }
SettlesCapital == ~liquidated

\* remaningAmount of a trade that was not liquidated (exit bar in the series)
remaningAmount ==
    LET exitSoldAmountInUSD ==
            calculateExitSoldInUSD(btcBought, profitTaken, profitLimitPrice, At(exitIndex))
        profitOrLoss ==
            calculateProfitOrLoss(exitSoldAmountInUSD, btcBought, entryPrice, cfg.long)
    IN  calculateRemainingAmount(profitOrLoss, R(cfg.amount))

----------------------------------------------------------------------------
(* dcaWithLeverage as a state machine: pc is "loop" at the header of the   *)
(* outer loop, "scan" at the header of the scan loop, "settle" after the   *)
(* scan loop, "done" once the result is returned and "thrown" when a       *)
(* TypeError (property read on data[k] = undefined) leaves the function.   *)

Resolve(outcome, bar) ==
    [trades EXCEPT ![Len(trades)] = [@ EXCEPT !.outcome = outcome, !.resolvedAt = bar]]

\* outer loop header true: open the trade of index i
Enter ==
    /\ pc = "loop"
    /\ EntryGuard
    /\ liquidated' = FALSE
    /\ profitTaken' = FALSE
    /\ j' = i + 1
    /\ trades' = Append(trades, [entryIndex |-> i, entryPrice |-> entryPrice,
                                 outcome |-> "open", resolvedAt |-> -1,
                                 settled |-> FALSE])
    /\ pc' = "scan"
    /\ UNCHANGED <<data, cfg, i, wallet, liquidationsCount, takeProfitsCount,
                   closedPositionsCount>>
    /\ UNCHANGED dcaVars /\ UNCHANGED gridVars
    /\ UNCHANGED harnessVars

\* one iteration of the scan loop on bar j
ScanBar ==
    /\ pc = "scan"
    /\ ScanContinues
    /\ IF ~InSeries(j)
       THEN \* isLiquidated(undefined, ...) reads candle.low: TypeError
            /\ pc' = "thrown"
            /\ UNCHANGED <<j, liquidated, profitTaken, liquidationsCount,
                           takeProfitsCount, trades>>
       ELSE LET outcome == ScanOutcome(At(j)) IN
            /\ liquidated' = (liquidated \/ outcome = "liquidated")
            /\ profitTaken' = (profitTaken \/ outcome = "profit")
            /\ liquidationsCount' =
                   IF outcome = "liquidated" THEN liquidationsCount + 1 ELSE liquidationsCount
            /\ takeProfitsCount' =
                   IF outcome = "profit" THEN takeProfitsCount + 1 ELSE takeProfitsCount
            /\ trades' = IF outcome = "none" THEN trades ELSE Resolve(outcome, j)
            /\ j' = IF outcome = "none" THEN j + 1 ELSE j
            /\ pc' = IF outcome = "none" THEN "scan" ELSE "settle"
    /\ UNCHANGED <<data, cfg, i, wallet, closedPositionsCount>>
    /\ UNCHANGED dcaVars /\ UNCHANGED gridVars
    /\ UNCHANGED harnessVars

\* scan loop header false: the window is exhausted
ScanEnd ==
    /\ pc = "scan"
    /\ ~ScanContinues
    /\ pc' = "settle"
    /\ UNCHANGED <<data, cfg>> /\ UNCHANGED simVars
    /\ UNCHANGED dcaVars /\ UNCHANGED gridVars
    /\ UNCHANGED harnessVars

\* the rest of the iteration: time-expired count, settlement, i += frequency
Settle ==
    /\ pc = "settle"
    /\ LET expired == ~liquidated /\ ~profitTaken
           marked == IF expired THEN Resolve("expired", exitIndex) ELSE trades
       IN
       /\ closedPositionsCount' =
              IF expired THEN closedPositionsCount + 1 ELSE closedPositionsCount
       /\ IF SettlesCapital /\ ~InSeries(exitIndex)
          THEN \* data[exitIndex].close with data[exitIndex] undefined: TypeError
               /\ pc' = "thrown"
               /\ trades' = marked
               /\ UNCHANGED <<i, wallet>>
          ELSE /\ wallet' =
                     IF SettlesCapital
                     THEN RAdd(wallet, RDiv(remaningAmount, R(At(exitIndex).close)))
                     ELSE wallet
               /\ trades' = [marked EXCEPT ![Len(marked)].settled = TRUE]
               /\ i' = i + cfg.freq
               /\ pc' = "loop"
    /\ UNCHANGED <<data, cfg, j, liquidated, profitTaken, liquidationsCount,
                   takeProfitsCount>>
    /\ UNCHANGED dcaVars /\ UNCHANGED gridVars
    /\ UNCHANGED harnessVars

\* outer loop header false: return { wallet, liquidationsCount, ... }
Return ==
    /\ pc = "loop"
    /\ ~EntryGuard
    /\ pc' = "done"
    /\ UNCHANGED <<data, cfg>> /\ UNCHANGED simVars
    /\ UNCHANGED dcaVars /\ UNCHANGED gridVars
    /\ UNCHANGED harnessVars

----------------------------------------------------------------------------
(* One call of dcaWithLeverage on a series and a configuration *)

Init ==
    /\ data \in SeqsUpTo(Candles, MaxLen)
    /\ cfg \in Configs
    /\ pc = "loop"
    /\ i = 0
    /\ j = 0
    /\ liquidated = FALSE
    /\ profitTaken = FALSE
    /\ wallet = Zero
    /\ liquidationsCount = 0
    /\ takeProfitsCount = 0
    /\ closedPositionsCount = 0
    /\ trades = <<>>
    /\ dcaI = 0
    /\ dcaWallet = Zero
    /\ purchases = 0
    /\ caller = "none"
    /\ gridI = 0
    /\ gridJ = 0
    /\ leverageResults = <<>>
    /\ variant = [state |-> "none"]
    /\ runs = <<>>

Next == Enter \/ ScanBar \/ ScanEnd \/ Settle \/ Return

Spec == Init /\ [][Next]_vars

TypeOK ==
    /\ pc \in {"dca", "grid", "loop", "scan", "settle", "done", "thrown", "printed"}
    /\ wallet.d > 0
    /\ liquidationsCount \in Nat /\ takeProfitsCount \in Nat /\ closedPositionsCount \in Nat
----------------------------------------------------------------------------
(* Properties of dcaWithLeverage *)

\* thresholds of the trade recorded in trades[k]
LiquidationPriceOf(k) == calculateLiquidationPrice(trades[k].entryPrice, R(cfg.leverage), cfg.long)
ProfitLimitPriceOf(k) == calculateProfitLimit(trades[k].entryPrice, R(cfg.profit), R(cfg.leverage), cfg.long)
ExitIndexOf(k) == trades[k].entryIndex + cfg.duration
Resolved(k) == trades[k].outcome \in {"liquidated", "profit", "expired"}

\* both conditions of a bar against a liquidation price lp and a profit limit pl
BothHold(candle, lp, pl) ==
    IF cfg.long
    THEN candle.low * lp.d <= lp.n /\ candle.high * pl.d >= pl.n
    ELSE candle.high * lp.d >= lp.n /\ candle.low * pl.d <= pl.n

\* C1: a bar of the window on which the liquidation and the profit-target
\* condition both hold, the trade being still open, resolves the trade as
\* liquidated: liquidationsCount is incremented, takeProfitsCount is not.
C1_LiquidationWinsTie ==
    [][ (pc = "scan" /\ ScanContinues /\ InSeries(j)
            /\ BothHold(At(j), liquidationPrice, profitLimitPrice))
        => ( /\ liquidated' /\ ~profitTaken'
             /\ liquidationsCount' = liquidationsCount + 1
             /\ takeProfitsCount' = takeProfitsCount
             /\ trades'[Len(trades')].outcome = "liquidated" ) ]_vars

C1_Witness ==
    \E k \in DOMAIN trades :
        /\ trades[k].outcome = "liquidated"
        /\ BothHold(At(trades[k].resolvedAt), LiquidationPriceOf(k), ProfitLimitPriceOf(k))

\* C2 (as claimed): an entry whose exit index is outside the series is
\* excluded - no counter is incremented for it, it adds nothing to the wallet -
\* and the simulator still returns a result.
C2_OutOfRangeExcluded ==
    /\ pc # "thrown"
    /\ \A k \in DOMAIN trades :
           ~InSeries(ExitIndexOf(k)) => trades[k].outcome = "open"

\* C3 (as claimed): when dcaWithLeverage returns, the three counters add up
\* to the number of entries whose exit index is inside the series, and each
\* such entry incremented exactly one of them.
C3_CountsResolvableEntries ==
    pc = "done" =>
        /\ liquidationsCount + takeProfitsCount + closedPositionsCount
               = Cardinality({ k \in DOMAIN trades : InSeries(ExitIndexOf(k)) })
        /\ \A k \in DOMAIN trades : InSeries(ExitIndexOf(k)) => Resolved(k)

\* C4 (as claimed): every trade resolves at a bar inside the series that is
\* not later than the next entry index, whatever the duration and frequency.
C4_ResolvedBeforeNextEntry ==
    \A k \in DOMAIN trades :
        Resolved(k) =>
            /\ InSeries(trades[k].resolvedAt)
            /\ trades[k].resolvedAt <= trades[k].entryIndex + cfg.freq

\* C4 (amended): every trade that resolves does so at a bar inside the series
\* and inside its window i+1 .. i+tradeDuration; that bar is not later than
\* the next entry index i+buyFrequency when tradeDuration <= buyFrequency.
C4_ResolvedInsideWindow ==
    \A k \in DOMAIN trades :
        Resolved(k) =>
            /\ InSeries(trades[k].resolvedAt)
            /\ trades[k].entryIndex < trades[k].resolvedAt
            /\ trades[k].resolvedAt <= ExitIndexOf(k)
            /\ (cfg.duration <= cfg.freq
                    => trades[k].resolvedAt <= trades[k].entryIndex + cfg.freq)

\* a trade resolved on the last bar before the next entry, duration = frequency
C4_Witness ==
    \E k \in DOMAIN trades :
        /\ Resolved(k)
        /\ cfg.duration = cfg.freq
        /\ trades[k].resolvedAt = trades[k].entryIndex + cfg.freq

\* C5: a trade is opened at index i iff i is a multiple of the frequency with
\* i + frequency < length; the entries come in increasing order, each index
\* once, and the entry price is the open of bar i.
C5_EntryIndices ==
    /\ \A k \in DOMAIN trades :
           /\ trades[k].entryIndex = (k - 1) * cfg.freq
           /\ trades[k].entryIndex + cfg.freq < Len(data)
           /\ trades[k].entryPrice = R(data[trades[k].entryIndex + 1].open)
    /\ pc = "done" =>
           Len(trades) = Cardinality({ x \in 0..Len(data) :
                                         x % cfg.freq = 0 /\ x + cfg.freq < Len(data) })

C5_Witness == pc = "done" /\ Len(trades) >= 2

\* units per rational price e, and the capital left by an exit at price x
C6_Units(e) == RDiv(R(cfg.amount * cfg.leverage), e)
C6_Remaining(e, x) ==
    LET bought == RMul(C6_Units(e), e)
        sold == RMul(C6_Units(e), x)
    IN  RAdd(R(cfg.amount), IF cfg.long THEN RSub(sold, bought) ELSE RSub(bought, sold))

C7_LiquidationFrame ==
    [][ /\ (pc = "scan" /\ liquidated')
            => /\ liquidationsCount' = liquidationsCount + 1
               /\ wallet' = wallet
               /\ takeProfitsCount' = takeProfitsCount
               /\ closedPositionsCount' = closedPositionsCount
        /\ (pc = "settle" /\ liquidated)
            => /\ liquidationsCount' = liquidationsCount
               /\ wallet' = wallet
               /\ takeProfitsCount' = takeProfitsCount
               /\ closedPositionsCount' = closedPositionsCount
               /\ pc' = "loop" ]_vars

C7_Witness ==
    \E k \in DOMAIN trades :
        /\ trades[k].outcome = "liquidated"
        /\ trades[k].settled
        /\ InSeries(ExitIndexOf(k))
        /\ wallet # Zero

\* the end-to-end scenario of the specification
C8_Series ==
    << Candle(100, 105, 95, 105), Candle(110, 110, 95, 100),
       Candle(90, 105, 90, 95), Candle(120, 130, 90, 130) >>
C8_Config ==
    [freq |-> 2, amount |-> 100, duration |-> 1, leverage |-> 10, profit |-> 100,
     long |-> TRUE]

\* C8: on the 4-bar scenario exactly one trade is opened (bar 0), it is
\* profit-taken on bar 1, and the result is wallet = 2 with counts 0 / 1 / 0.
C8_Scenario ==
    (data = C8_Series /\ cfg = C8_Config /\ pc \in {"done", "thrown"}) =>
        /\ pc = "done"
        /\ wallet = R(2)
        /\ liquidationsCount = 0
        /\ takeProfitsCount = 1
        /\ closedPositionsCount = 0
        /\ Len(trades) = 1
        /\ trades[1].entryIndex = 0
        /\ trades[1].outcome = "profit"
        /\ trades[1].resolvedAt = 1

C8_Witness == data = C8_Series /\ cfg = C8_Config /\ pc = "done" /\ caller = "none"
----------------------------------------------------------------------------
(* src/src/index.ts, dca: the baseline accumulator *)

\* mutant: the loop bound of the simulator, with its look-ahead of one period
DcaGuard_lookahead == dcaI + cfg.freq < Len(data)

\* for (let i = 0; i < data.length; i += buyFrequencyInHours)
DcaGuard == dcaI < Len(data)

\* one iteration: wallet += buyAmount / data[i].close
\* (a frequency of 0 never leaves the loop: the model stops after MaxSpin turns)
DcaStep ==
    /\ pc = "dca"
    /\ DcaGuard
    /\ (cfg.freq = 0 => purchases < MaxSpin)
    /\ dcaWallet' = RAdd(dcaWallet, RDiv(R(cfg.amount), R(At(dcaI).close)))
    /\ dcaI' = dcaI + cfg.freq
    /\ purchases' = purchases + 1
    /\ UNCHANGED <<data, cfg, pc>> /\ UNCHANGED simVars /\ UNCHANGED gridVars
    /\ UNCHANGED harnessVars

----------------------------------------------------------------------------
(* src/src/index.ts, simulateEveryLeverages: the grid sweep *)

MinLeverage == 5
MinProfit == 50
ProfitStep == 50

Pow10(k) == 10 ^ k

\* Number.prototype.toFixed(digits): the decimal string of x rounded to
\* `digits` decimals, ties away from zero; the string is represented by the
\* integer it spells once the decimal point is dropped ("-49.99" is -4999)
toFixed(x, digits) ==
    LET q == (2 * Abs(x.n) * Pow10(digits) + x.d) \div (2 * x.d)
    IN  IF x.n < 0 THEN -q ELSE q

\* the number a toFixed string converts to in an arithmetic expression
ToNumber(str, digits) == Norm(str, Pow10(digits))

\* const diffenceInPercentage = (wallet / dcaClassicWallet) * 100 - 100
diffenceInPercentage(wallet_, dcaClassicWallet) ==
    RSub(RMul(RDiv(wallet_, dcaClassicWallet), R(100)), R(100))

\* mutant: the comparator of an ascending sort
Compare_ascending(a, b) ==
    RSub(ToNumber(a.diffPercent, 2), ToNumber(b.diffPercent, 2))

\* (a, b) => b["BTC accumulated in % vs classic DCA"] - a[...]
Compare(a, b) ==
    RSub(ToNumber(b.diffPercent, 2), ToNumber(a.diffPercent, 2))

\* Array.prototype.sort with a comparator: stable, x goes before the first
\* element that the comparator orders after it
RECURSIVE InsertSorted(_, _)
InsertSorted(sorted, x) ==
    IF sorted = <<>> THEN <<x>>
    ELSE IF Compare(Head(sorted), x).n > 0
         THEN <<x>> \o sorted
         ELSE <<Head(sorted)>> \o InsertSorted(Tail(sorted), x)

RECURSIVE SortRows(_)
SortRows(rows) ==
    IF rows = <<>> THEN <<>>
    ELSE InsertSorted(SortRows(SubSeq(rows, 1, Len(rows) - 1)), rows[Len(rows)])

\* dca returns: main passes its result to simulateEveryLeverages, whose
\* loops start at the first cell
DcaReturn ==
    /\ pc = "dca"
    /\ ~DcaGuard
    /\ caller' = "grid"
    /\ gridI' = MinLeverage
    /\ gridJ' = MinProfit
    /\ leverageResults' = <<>>
    /\ pc' = "grid"
    /\ UNCHANGED <<data, cfg>> /\ UNCHANGED simVars /\ UNCHANGED dcaVars
    /\ UNCHANGED harnessVars

\* one cell: dcaWithLeverage(filteredData, buyFrequencyInHours, dcaAmount,
\* longDurationInHours, i, j) with long defaulting to true
GridCall ==
    /\ pc = "grid"
    /\ gridI <= MaxLeverage
    /\ cfg' = [cfg EXCEPT !.leverage = gridI, !.profit = gridJ, !.long = TRUE]
    /\ i' = 0
    /\ j' = 0
    /\ liquidated' = FALSE
    /\ profitTaken' = FALSE
    /\ wallet' = Zero
    /\ liquidationsCount' = 0
    /\ takeProfitsCount' = 0
    /\ closedPositionsCount' = 0
    /\ trades' = <<>>
    /\ pc' = "loop"
    /\ UNCHANGED data /\ UNCHANGED dcaVars /\ UNCHANGED gridVars
    /\ UNCHANGED harnessVars

\* the cell's result is pushed as a row and the inner/outer loop advances
GridPush ==
    /\ pc = "done"
    /\ caller = "grid"
    /\ LET delta == diffenceInPercentage(wallet, dcaWallet) IN
       leverageResults' = Append(leverageResults,
           [ Leverage |-> gridI,
             takeProfit |-> gridJ,
             btcAccumulated |-> toFixed(wallet, 4),
             diffPercent |-> toFixed(delta, 2),
             closedPositions |-> closedPositionsCount,
             Liquidations |-> liquidationsCount,
             takeProfits |-> takeProfitsCount,
             delta |-> delta ])      \* history: the unrounded difference
    /\ IF gridJ + ProfitStep <= MaxProfit
       THEN gridJ' = gridJ + ProfitStep /\ gridI' = gridI
       ELSE gridJ' = MinProfit /\ gridI' = gridI + 1
    /\ pc' = "grid"
    /\ UNCHANGED <<data, cfg, caller>> /\ UNCHANGED simVars /\ UNCHANGED dcaVars
    /\ UNCHANGED harnessVars

\* console.table(leverageResults.sort(...)) once the grid is exhausted
SortTable ==
    /\ pc = "grid"
    /\ gridI > MaxLeverage
    /\ leverageResults' = SortRows(leverageResults)
    /\ pc' = "printed"
    /\ UNCHANGED <<data, cfg, caller, gridI, gridJ>>
    /\ UNCHANGED simVars /\ UNCHANGED dcaVars
    /\ UNCHANGED harnessVars

\* series of the sweep: two near-flat bars at 20000, and short series of Candles
GridSeries ==
    { << Candle(20000, 20010, 19990, 20000), Candle(20000, 20010, 19990, 20001) >> }
    \cup { s \in SeqsUpTo(Candles, 3) : Len(s) >= 1 /\ s[1].open = 100 }

\* main: dca(filteredData, buyFrequencyInHours, dcaAmount), then the sweep
InitGrid ==
    /\ data \in GridSeries
    /\ cfg \in [ freq : 0..MaxFreq, amount : BuyAmounts, duration : 1..MaxDuration,
                 leverage : {MinLeverage}, profit : {MinProfit}, long : {TRUE} ]
    /\ pc = "dca"
    /\ i = 0
    /\ j = 0
    /\ liquidated = FALSE
    /\ profitTaken = FALSE
    /\ wallet = Zero
    /\ liquidationsCount = 0
    /\ takeProfitsCount = 0
    /\ closedPositionsCount = 0
    /\ trades = <<>>
    /\ dcaI = 0
    /\ dcaWallet = Zero
    /\ purchases = 0
    /\ caller = "none"
    /\ gridI = 0
    /\ gridJ = 0
    /\ leverageResults = <<>>
    /\ variant = [state |-> "none"]
    /\ runs = <<>>

NextGrid ==
    \/ DcaStep \/ DcaReturn \/ GridCall
    \/ Enter \/ ScanBar \/ ScanEnd \/ Settle \/ Return
    \/ GridPush \/ SortTable

SpecGrid == InitGrid /\ [][NextGrid]_vars

----------------------------------------------------------------------------
(* Properties of the sweep *)

\* C9 (as claimed): in the printed table a row with a strictly larger
\* deltaPercent = (wallet / baselineUnits) * 100 - 100 comes before every row
\* with a smaller one.
C9_SortedByDelta ==
    pc = "printed" =>
        \A p, q \in DOMAIN leverageResults :
            RLt(leverageResults[q].delta, leverageResults[p].delta) => p < q

\* C9 (amended): the table is sorted descending by deltaPercent rounded to
\* two decimals (the printed column); rows that round to the same value keep
\* the order of the grid.
C9_SortedByRoundedDelta ==
    pc = "printed" =>
        /\ Len(leverageResults) = Cardinality({ <<r.Leverage, r.takeProfit>> :
                                                  r \in { leverageResults[p] : p \in DOMAIN leverageResults } })
        /\ \A p, q \in DOMAIN leverageResults :
               p < q =>
                   \/ leverageResults[p].diffPercent > leverageResults[q].diffPercent
                   \/ /\ leverageResults[p].diffPercent = leverageResults[q].diffPercent
                      /\ \/ leverageResults[p].Leverage < leverageResults[q].Leverage
                         \/ /\ leverageResults[p].Leverage = leverageResults[q].Leverage
                            /\ leverageResults[p].takeProfit < leverageResults[q].takeProfit
        /\ \A p \in DOMAIN leverageResults :
               leverageResults[p].diffPercent = toFixed(leverageResults[p].delta, 2)

\* a printed table whose rows had to be reordered
C9_Witness ==
    /\ pc = "printed"
    /\ \E p, q \in DOMAIN leverageResults :
           /\ p < q
           /\ leverageResults[p].Leverage > leverageResults[q].Leverage
           /\ leverageResults[p].diffPercent > leverageResults[q].diffPercent

\* C10 (as claimed): with a purchase cadence, leverage or profit target <= 0
\* no loop body of dca or dcaWithLeverage is ever executed.
C10_DegenerateRejected ==
    (cfg.freq <= 0 \/ cfg.leverage <= 0 \/ cfg.profit <= 0)
        => (purchases = 0 /\ trades = <<>>)

\* C11 (as claimed): a cell whose simulation faults does not abort the sweep;
\* the other cells are still evaluated and the table is produced.
C11_FaultIsolated == ~(caller = "grid" /\ pc = "thrown")

\* sum of amount / close over the multiples k, k + freq, ... below limit
RECURSIVE C12_Sum(_, _)
C12_Sum(k, limit) ==
    IF k >= limit \/ k >= Len(data) THEN Zero
    ELSE RAdd(C12_Sum(k + cfg.freq, limit), Norm(cfg.amount, data[k + 1].close))

C12_Indices(limit) == { k \in 0..(Len(data) - 1) : k % cfg.freq = 0 /\ k < limit }

\* C12: dca returns the sum of buyAmount / close[i] over exactly the indices
\* 0, f, 2f, ... below the length (f >= 1); the sum reads closes only and is
\* the same for every leverage and profit target of the sweep.
C12_BaselineSum ==
    cfg.freq >= 1 =>
        /\ pc = "dca" =>
               /\ dcaWallet = C12_Sum(0, dcaI)
               /\ purchases = Cardinality(C12_Indices(dcaI))
        /\ pc # "dca" =>
               /\ dcaWallet = C12_Sum(0, Len(data))
               /\ purchases = Cardinality(C12_Indices(Len(data)))
               /\ dcaI >= Len(data)

C12_Witness ==
    /\ caller = "grid"
    /\ purchases >= 2
    /\ cfg.leverage > MinLeverage
    /\ pc = "done"

\* C18: on a non-empty series with frequency >= 1 the baseline makes exactly
\* one more purchase than dcaWithLeverage opens trades.
C18_OneMorePurchase ==
    (caller = "grid" /\ cfg.freq >= 1 /\ Len(data) >= 1) =>
        /\ Len(trades) <= purchases - 1
        /\ pc = "done" => purchases = Len(trades) + 1

C18_Witness ==
    /\ caller = "grid"
    /\ pc = "done"
    /\ Len(trades) >= 1
    /\ purchases = Len(trades) + 1

----------------------------------------------------------------------------
(* Properties of the scan window and of the settlement *)

LiquidationHolds(candle, lp) ==
    IF cfg.long THEN candle.low * lp.d <= lp.n ELSE candle.high * lp.d >= lp.n
ProfitHolds(candle, pl) ==
    IF cfg.long THEN candle.high * pl.d >= pl.n ELSE candle.low * pl.d <= pl.n
EitherHolds(b, lp, pl) ==
    LiquidationHolds(At(b), lp) \/ ProfitHolds(At(b), pl)

\* C15: the outcome is decided by the earliest bar of the window on which the
\* liquidation or the profit condition holds (inclusive comparisons), later
\* bars are not read, and a trade is time-expired iff no bar of the whole
\* window satisfies either condition.
C15_EarliestBarDecides ==
    \A k \in DOMAIN trades :
        LET first == trades[k].entryIndex + 1
            at == trades[k].resolvedAt
            lp == LiquidationPriceOf(k)
            pl == ProfitLimitPriceOf(k)
            quiet == \A b \in first..ExitIndexOf(k) : InSeries(b) /\ ~EitherHolds(b, lp, pl)
        IN
        /\ trades[k].outcome \in {"liquidated", "profit"} =>
               /\ at \in first..ExitIndexOf(k)
               /\ InSeries(at)
               /\ EitherHolds(at, lp, pl)
               /\ \A b \in first..(at - 1) : ~EitherHolds(b, lp, pl)
               /\ (trades[k].outcome = "liquidated") <=> LiquidationHolds(At(at), lp)
               /\ (k = Len(trades) /\ pc = "settle") => j = at
        /\ trades[k].outcome = "expired" => quiet
        /\ (trades[k].settled /\ quiet) => trades[k].outcome = "expired"

\* profit taken on a high equal to the limit, the next bar of the window
\* being at the liquidation level
C15_Witness ==
    \E k \in DOMAIN trades :
        /\ trades[k].outcome = "profit"
        /\ trades[k].settled
        /\ cfg.long
        /\ At(trades[k].resolvedAt).high * ProfitLimitPriceOf(k).d = ProfitLimitPriceOf(k).n
        /\ trades[k].resolvedAt + 1 <= ExitIndexOf(k)
        /\ InSeries(trades[k].resolvedAt + 1)
        /\ LiquidationHolds(At(trades[k].resolvedAt + 1), LiquidationPriceOf(k))

WellFormed ==
    \A k \in DOMAIN data :
        0 < data[k].low /\ data[k].low <= data[k].close /\ data[k].close <= data[k].high

\* C17: with well-formed candles, leverage >= 1, profit target > 0 and the
\* exit bar in the series, the remaining capital of a trade that is not
\* liquidated is strictly positive, so the wallet never decreases and is
\* >= 0; a profit-taken trade leaves buyAmount * (1 + profitTarget / 100).
C17_PositiveRemaining ==
    [][ /\ wallet'.n >= 0
        /\ RLe(wallet, wallet')
        /\ (pc = "settle" /\ ~liquidated /\ InSeries(exitIndex)
              /\ WellFormed /\ cfg.leverage >= 1 /\ cfg.profit > 0)
            => /\ remaningAmount.n > 0
               /\ RLt(wallet, wallet')
               /\ profitTaken =>
                      remaningAmount = Norm(cfg.amount * (100 + cfg.profit), 100) ]_vars

\* a short trade closed at a loss at the end of its window, and settled
C17_Witness ==
    \E k \in DOMAIN trades :
        /\ trades[k].outcome = "expired"
        /\ trades[k].settled
        /\ ~cfg.long
        /\ At(ExitIndexOf(k)).close * trades[k].entryPrice.d > trades[k].entryPrice.n
        /\ wallet.n > 0

----------------------------------------------------------------------------
(* The older variants of the engine: the long-only dcaWithLeverage at the  *)
(* top of src/src/index.ts ("longOnly") and the one of src/unnamed/part_000*)
(* ("part000").  Both are pure functions of the series and the arguments;  *)
(* they are computed here as the code computes them, entry by entry.       *)

\* index.ts: distanceInDollars = (distance / 100) * entryPrice
calculateLongLiquidationPrice(entryPrice_, leverage) ==
    LET distance == RDiv(R(100), leverage)
        distanceInDollars == RMul(RDiv(distance, R(100)), entryPrice_)
    IN  RSub(entryPrice_, distanceInDollars)

\* part_000: distanceInDollars = (distance / 25) * entryPrice
calculateLongLiquidationPrice_part000(entryPrice_, leverage) ==
    LET distance == RDiv(R(100), leverage)
        distanceInDollars == RMul(RDiv(distance, R(25)), entryPrice_)
    IN  RSub(entryPrice_, distanceInDollars)

\* index.ts calculateProfitLimit (long only); part_000 computes it inline
calculateProfitLimitLong(entryPrice_, profitInPercent, leverage) ==
    RAdd(entryPrice_, RDiv(RDiv(RMul(entryPrice_, profitInPercent), R(100)), leverage))

LiquidationPriceIn(v, entryPrice_, leverage) ==
    IF v = "part000" THEN calculateLongLiquidationPrice_part000(entryPrice_, leverage)
                     ELSE calculateLongLiquidationPrice(entryPrice_, leverage)

\* mutant: the strict comparison of part_000 in every variant
LowBreach_strict(v, k, lp) ==
    InSeries(k) /\ RLt(R(At(k).low), lp)

\* data[j]?.low <= liquidationPrice (index.ts), data[j]?.low < liquidationPrice
\* (part_000); a bar outside the series compares as false
LowBreach(v, k, lp) ==
    /\ InSeries(k)
    /\ IF v = "part000" THEN RLt(R(At(k).low), lp) ELSE RLe(R(At(k).low), lp)

\* data[j]?.high >= profitLimitPrice (index.ts), > (part_000)
HighBreach(v, k, pl) ==
    /\ InSeries(k)
    /\ IF v = "part000" THEN RLt(pl, R(At(k).high)) ELSE RGe(R(At(k).high), pl)

\* the scan loop from bar k to the exit index
RECURSIVE ScanIn(_, _, _, _, _)
ScanIn(v, k, exit, lp, pl) ==
    IF k > exit THEN [outcome |-> "expired", at |-> exit]
    ELSE IF LowBreach(v, k, lp) THEN [outcome |-> "liquidated", at |-> k]
    ELSE IF HighBreach(v, k, pl) THEN [outcome |-> "profit", at |-> k]
    ELSE ScanIn(v, k + 1, exit, lp, pl)

\* the outer loop from entry index k with the locals acc
RECURSIVE RunIn(_, _, _)
RunIn(v, k, acc) ==
    IF ~(k + cfg.freq < Len(data)) THEN acc
    ELSE
        LET entryPrice_ == R(At(k).open)
            btcBought_ == RDiv(RMul(R(cfg.amount), R(cfg.leverage)), entryPrice_)
            lp == LiquidationPriceIn(v, entryPrice_, R(cfg.leverage))
            pl == calculateProfitLimitLong(entryPrice_, R(cfg.profit), R(cfg.leverage))
            exit == k + cfg.duration
            hit == ScanIn(v, k + 1, exit, lp, pl)
            counted ==
                [acc EXCEPT
                    !.liquidationsCount = IF hit.outcome = "liquidated" THEN @ + 1 ELSE @,
                    !.takeProfitsCount = IF hit.outcome = "profit" THEN @ + 1 ELSE @,
                    !.closedPositionsCount = IF hit.outcome = "expired" THEN @ + 1 ELSE @,
                    !.outcomes = Append(@, hit)]
        IN
        IF hit.outcome = "liquidated" THEN RunIn(v, k + cfg.freq, counted)
        ELSE IF ~InSeries(exit)
             THEN \* data[exitIndex].open or .close with data[exitIndex] undefined
                  [counted EXCEPT !.thrown = TRUE]
        ELSE
            LET exitPrice == IF hit.outcome = "profit" THEN pl ELSE R(At(exit).open)
                soldAmount == RMul(btcBought_, exitPrice)
                profitOrLoss == RSub(soldAmount, RMul(btcBought_, entryPrice_))
                remaning == RAdd(profitOrLoss, R(cfg.amount))
            IN  RunIn(v, k + cfg.freq,
                      [counted EXCEPT !.wallet = RAdd(@, RDiv(remaning, R(At(exit).close)))])

dcaWithLeverageIn(v) ==
    RunIn(v, 0, [wallet |-> Zero, liquidationsCount |-> 0, takeProfitsCount |-> 0,
                 closedPositionsCount |-> 0, outcomes |-> <<>>, thrown |-> FALSE])

\* the same arguments are given to the two older variants
RunVariants ==
    /\ pc \in {"done", "thrown"}
    /\ caller = "none"
    /\ variant.state = "none"
    /\ variant' = [state |-> "ran",
                   longOnly |-> dcaWithLeverageIn("longOnly"),
                   part000 |-> dcaWithLeverageIn("part000")]
    /\ UNCHANGED <<data, cfg, pc, runs>>
    /\ UNCHANGED simVars /\ UNCHANGED dcaVars /\ UNCHANGED gridVars

\* bars at 10000 for the documented example (leverage 25: 9600 / 10400)
VariantSeries ==
    { << Candle(10000, 10100, 9900, 10050), Candle(10050, 10100, 9600, 9700) >>,
      << Candle(10000, 10100, 9900, 10050), Candle(10050, 10400, 9900, 10300),
         Candle(10300, 10350, 9500, 9600) >> }
    \cup SeqsUpTo(Candles, 3)

VariantLeverages == {5, 10, 25}

InitVariants ==
    /\ data \in VariantSeries
    /\ cfg \in [ freq : 1..MaxFreq, amount : BuyAmounts, duration : 1..MaxDuration,
                 leverage : VariantLeverages, profit : ProfitTargets, long : {TRUE} ]
    /\ pc = "loop"
    /\ i = 0
    /\ j = 0
    /\ liquidated = FALSE
    /\ profitTaken = FALSE
    /\ wallet = Zero
    /\ liquidationsCount = 0
    /\ takeProfitsCount = 0
    /\ closedPositionsCount = 0
    /\ trades = <<>>
    /\ dcaI = 0
    /\ dcaWallet = Zero
    /\ purchases = 0
    /\ caller = "none"
    /\ gridI = 0
    /\ gridJ = 0
    /\ leverageResults = <<>>
    /\ variant = [state |-> "none"]
    /\ runs = <<>>

NextVariants == Enter \/ ScanBar \/ ScanEnd \/ Settle \/ Return \/ RunVariants

SpecVariants == InitVariants /\ [][NextVariants]_vars

----------------------------------------------------------------------------
(* Properties of the variants *)

\* e * (L - 1) / L and e * (L + 1) / L for an integer price e and leverage L
C13_Below(e, L) == Norm(e * (L - 1), L)
C13_Above(e, L) == Norm(e * (L + 1), L)

\* C13 (as claimed): calculateLiquidationPrice is entry * (1 - 1/leverage) for
\* long and entry * (1 + 1/leverage) for short (9600 and 10400 for 10000 at
\* leverage 25), and every variant of the simulator uses the same distance.
C13_SameLiquidationDistance ==
    /\ calculateLiquidationPrice(R(10000), R(25), TRUE) = R(9600)
    /\ calculateLiquidationPrice(R(10000), R(25), FALSE) = R(10400)
    /\ \A k \in DOMAIN data :
           LET e == data[k].open
               L == cfg.leverage
           IN  /\ calculateLiquidationPrice(R(e), R(L), TRUE) = C13_Below(e, L)
               /\ calculateLiquidationPrice(R(e), R(L), FALSE) = C13_Above(e, L)
               /\ LiquidationPriceIn("longOnly", R(e), R(L)) = C13_Below(e, L)
               /\ LiquidationPriceIn("part000", R(e), R(L)) = C13_Below(e, L)

\* the part of C13 that concerns utils.ts and index.ts only
C13_CurrentVariantsAgree ==
    /\ calculateLiquidationPrice(R(10000), R(25), TRUE) = R(9600)
    /\ calculateLiquidationPrice(R(10000), R(25), FALSE) = R(10400)
    /\ \A k \in DOMAIN data :
           LET e == data[k].open
               L == cfg.leverage
           IN  /\ calculateLiquidationPrice(R(e), R(L), TRUE) = C13_Below(e, L)
               /\ calculateLiquidationPrice(R(e), R(L), FALSE) = C13_Above(e, L)
               /\ LiquidationPriceIn("longOnly", R(e), R(L)) = C13_Below(e, L)

C16_Compared ==
    /\ variant.state = "ran"
    /\ cfg.long
    /\ pc = "done"
    /\ \A k \in DOMAIN trades : InSeries(ExitIndexOf(k))

C16_SameOutcomes ==
    /\ ~variant.longOnly.thrown
    /\ variant.longOnly.outcomes =
           [k \in DOMAIN trades |-> [outcome |-> trades[k].outcome, at |-> trades[k].resolvedAt]]
    /\ variant.longOnly.liquidationsCount = liquidationsCount
    /\ variant.longOnly.takeProfitsCount = takeProfitsCount
    /\ variant.longOnly.closedPositionsCount = closedPositionsCount

\* what the time-expired trades yield more when sold at the open of the exit
\* bar instead of its close: units * (open - close) / close each
RECURSIVE C16_OpenCloseGap(_)
C16_OpenCloseGap(k) ==
    IF k = 0 THEN Zero
    ELSE IF trades[k].outcome # "expired" THEN C16_OpenCloseGap(k - 1)
    ELSE LET x == At(ExitIndexOf(k))
             units == RDiv(R(cfg.amount * cfg.leverage), trades[k].entryPrice)
         IN  RAdd(C16_OpenCloseGap(k - 1),
                  RDiv(RMul(units, R(x.open - x.close)), R(x.close)))

\* C16 (as claimed): with every exit index in range the long-only simulator
\* and the direction-aware one called with Long give the same outcome for
\* each trade, the same three counts and the same wallet.
C16_VariantsEquivalent ==
    C16_Compared => (C16_SameOutcomes /\ variant.longOnly.wallet = wallet)

\* C16 (amended): they give the same outcome for each trade and the same three
\* counts; the long-only wallet is the direction-aware wallet plus, for each
\* time-expired trade, units * (open - close) of the exit bar / its close.
C16_SameOutcomesWalletGap ==
    C16_Compared =>
        /\ C16_SameOutcomes
        /\ variant.longOnly.wallet = RAdd(wallet, C16_OpenCloseGap(Len(trades)))

C16_Witness ==
    /\ C16_Compared
    /\ \E k \in DOMAIN trades : trades[k].outcome = "expired"
    /\ \E k \in DOMAIN trades : trades[k].outcome = "liquidated"
    /\ variant.longOnly.wallet # wallet

----------------------------------------------------------------------------
(* Repeated invocations of dcaWithLeverage on the same series, as main     *)
(* does (long, then short) and as the sweep does cell after cell            *)

MaxRuns == 2

\* return { wallet, liquidationsCount, takeProfitsCount, closedPositionsCount }
Result ==
    [wallet |-> wallet, liquidationsCount |-> liquidationsCount,
     takeProfitsCount |-> takeProfitsCount, closedPositionsCount |-> closedPositionsCount]

\* mutant: the accumulator outlives the call
InitialWallet_carried == wallet

\* let wallet = 0
InitialWallet == Zero

\* the arguments of the next call: the same, the other direction, or another leverage
NextConfigs(c) ==
    {c, [c EXCEPT !.long = ~c.long]}
        \cup { [c EXCEPT !.leverage = l] : l \in Leverages \ {c.leverage} }

\* the caller takes the result and calls dcaWithLeverage again
Invoke ==
    /\ pc = "done"
    /\ caller = "none"
    /\ Len(runs) < MaxRuns
    /\ runs' = Append(runs, [data |-> data, cfg |-> cfg, result |-> Result])
    /\ cfg' \in NextConfigs(cfg)
    /\ i' = 0
    /\ j' = 0
    /\ liquidated' = FALSE
    /\ profitTaken' = FALSE
    /\ wallet' = InitialWallet
    /\ liquidationsCount' = 0
    /\ takeProfitsCount' = 0
    /\ closedPositionsCount' = 0
    /\ trades' = <<>>
    /\ pc' = "loop"
    /\ UNCHANGED <<data, variant>> /\ UNCHANGED dcaVars /\ UNCHANGED gridVars

InitRepeat ==
    /\ data \in SeqsUpTo(Candles, 3)
    /\ cfg \in Configs
    /\ pc = "loop"
    /\ i = 0
    /\ j = 0
    /\ liquidated = FALSE
    /\ profitTaken = FALSE
    /\ wallet = Zero
    /\ liquidationsCount = 0
    /\ takeProfitsCount = 0
    /\ closedPositionsCount = 0
    /\ trades = <<>>
    /\ dcaI = 0
    /\ dcaWallet = Zero
    /\ purchases = 0
    /\ caller = "none"
    /\ gridI = 0
    /\ gridJ = 0
    /\ leverageResults = <<>>
    /\ variant = [state |-> "none"]
    /\ runs = <<>>

NextRepeat == Enter \/ ScanBar \/ ScanEnd \/ Settle \/ Return \/ Invoke

SpecRepeat == InitRepeat /\ [][NextRepeat]_vars

\* C14: two invocations with the same series and configuration return the
\* same wallet and the same three counts, whatever was invoked before or
\* between them, and no invocation modifies the series.
C14_SameArgumentsSameResult ==
    /\ \A a, b \in DOMAIN runs :
           runs[a].cfg = runs[b].cfg => runs[a].result = runs[b].result
    /\ \A a \in DOMAIN runs :
           /\ runs[a].data = data
           /\ (pc = "done" /\ runs[a].cfg = cfg) => runs[a].result = Result

\* the first arguments again after a call with other arguments
C14_Witness ==
    /\ pc = "done"
    /\ Len(runs) = 2
    /\ runs[1].cfg = cfg
    /\ runs[2].cfg # cfg
    /\ runs[2].result # Result
    /\ wallet # Zero
====
